---- MODULE Spec2Model ----
(***************************************************************************)
(* Stream accounting and lifecycle of the streamflow program.              *)
(*                                                                         *)
(* The repository holds several independently written variants of the     *)
(* stream record and of its operations.  Each is modelled as its own      *)
(* program, selected by the variable prog:                                *)
(*   "lib"          src/programs/streamflow/src/lib.rs                    *)
(*   "ix_withdraw"  src/programs/streamflow/src/instructions/withdraw.rs  *)
(*   "ix_cancel"    .../src/instructions/cancel_stream.rs                 *)
(*   "state_stream" src/programs/streamflow/src/state/stream.rs           *)
(*   "state_utils"  src/programs/streamflow/src/state/mod.rs (utils)      *)
(* Amounts are u64 in the source; the model keeps the wrap-around         *)
(* behaviour at a reduced width of Bits bits.                             *)
(***************************************************************************)
EXTENDS Integers, Sequences, FiniteSets, TLC

VARIABLES prog, stream, clock, escrow, ret

vars == <<prog, stream, clock, escrow, ret>>

(***************************************************************************)
(* Bounds of the model.                                                    *)
(***************************************************************************)
\* width, in bits, of the model's u64 / i64
Bits == 3
\* timestamps range over 0..MaxTime
MaxTime == 2
\* largest amount argument passed to withdraw / topup in one call
MaxArg == 1
\* fee rates are drawn from the multiples k * BpsStep, k in 0..MaxBpsSteps
BpsStep == 2500
MaxBpsSteps == 5
\* most that the escrow token account is credited from outside the program,
\* over what the record says it holds
MaxSurplus == 1
\* the time arguments of the utils functions range over 0..MaxUtilsTime
MaxUtilsTime == 3

(***************************************************************************)
(* Integer types.                                                          *)
(***************************************************************************)
MOD64 == 2 ^ Bits
U64_MAX == MOD64 - 1
I64_MAX == (MOD64 \div 2) - 1
I64_MIN == -(MOD64 \div 2)
U16_MAX == (2 ^ 16) - 1
\* u128 holds the product of any two u64 and of any u64 with a u16
MOD128 == MOD64 * MOD64 * (U16_MAX + 1)
U128_MAX == MOD128 - 1

U64 == 0..U64_MAX
Times == 0..MaxTime

\* Rust `x as u64` (wrapping conversion of an integer to u64)
as_u64(x) == x % MOD64
\* Rust `x as i64` of a u64
as_i64(x) == IF x > I64_MAX THEN x - MOD64 ELSE x
\* Rust `x as u128` of an i64 (sign extension)
as_u128(x) == IF x < 0 THEN x + MOD128 ELSE x

min(a, b) == IF a <= b THEN a ELSE b

\* u64::saturating_sub
saturating_sub(a, b) == IF a >= b THEN a - b ELSE 0
\* u64::saturating_add
saturating_add(a, b) == IF a + b > U64_MAX THEN U64_MAX ELSE a + b
\* i64::saturating_sub
saturating_sub_i64(a, b) ==
    IF a - b > I64_MAX THEN I64_MAX ELSE IF a - b < I64_MIN THEN I64_MIN ELSE a - b

(***************************************************************************)
(* Result<T>, Option<T>.                                                   *)
(***************************************************************************)
Ok(v) == [ok |-> TRUE, val |-> v, err |-> "Ok"]
Err(e) == [ok |-> FALSE, val |-> 0, err |-> e]
\* a Rust panic (arithmetic overflow under overflow checks, division by zero)
Panic == Err("panic")

None == <<>>
Some(x) == <<x>>
is_none(o) == o = <<>>
is_some(o) == o # <<>>
unwrap(o) == o[1]
unwrap_or(o, d) == IF o = <<>> THEN d ELSE o[1]

\* u128::checked_mul(...).ok_or(MathOverflow)
checked_mul_u128(a, b) == IF a * b > U128_MAX THEN Err("MathOverflow") ELSE Ok(a * b)
\* i64::checked_mul(...).ok_or(MathOverflow)
checked_mul_i64(a, b) ==
    IF a * b > I64_MAX \/ a * b < I64_MIN THEN Err("MathOverflow") ELSE Ok(a * b)
\* u64::checked_add(...).ok_or(MathOverflow)
checked_add(a, b) == IF a + b > U64_MAX THEN Err("MathOverflow") ELSE Ok(a + b)

\* The plain `+` / `+=` on u64: panics when the build checks overflow, wraps
\* when it does not (wraps chooses between the two builds).
add_u64(a, b, wraps) ==
    IF a + b <= U64_MAX THEN Ok(a + b)
    ELSE IF wraps THEN Ok((a + b) % MOD64) ELSE Panic
\* The plain `*` on u64, likewise.
mul_u64(a, b, wraps) ==
    IF a * b <= U64_MAX THEN Ok(a * b)
    ELSE IF wraps THEN Ok((a * b) % MOD64) ELSE Panic
\* The plain `-` on u64, likewise.
sub_u64(a, b, wraps) ==
    IF a >= b THEN Ok(a - b)
    ELSE IF wraps THEN Ok((a - b) % MOD64) ELSE Panic

(***************************************************************************)
(* Identities and enumerations.                                            *)
(***************************************************************************)
Pubkeys == {"alice", "bob", "carol"}
Sender == "alice"

StreamStatus == {"Scheduled", "Streaming", "Paused", "Cancelled", "Completed"}
StreamType == {"Linear", "Cliff", "Step", "Custom"}

\* what the last call was and returned: the operation, its arguments (kept
\* for the queries only), the error ("Ok" on success), the value, and
\* whether the handler had written a field of the record before it
\* returned an error.
Ret(op, args, err, val, dirty) ==
    [op |-> op, args |-> args, err |-> err, val |-> val, dirty |-> dirty]
NoRet == Ret("none", <<>>, "Ok", 0, FALSE)

NoStream == [created |-> FALSE]

(***************************************************************************)
(* state/stream.rs: the Stream account and its queries.                    *)
(***************************************************************************)
BPS_DENOMINATOR == 10000

\* Stream::calculate_linear_amount
calculate_linear_amount_overshoot(self, current_time) ==
    LET elapsed_time == saturating_sub_i64(current_time, self.start_time)
        total_duration == saturating_sub_i64(self.end_time, self.start_time)
    IN  IF total_duration = 0 THEN Ok(self.deposited_amount)
        ELSE LET m == checked_mul_u128(self.deposited_amount, as_u128(elapsed_time))
             IN  IF ~m.ok THEN m
                 ELSE Ok(as_u64(m.val \div as_u128(total_duration)))

calculate_linear_amount(self, current_time) ==
    LET effective_time == min(current_time, self.end_time)
        elapsed_time == saturating_sub_i64(effective_time, self.start_time)
        total_duration == saturating_sub_i64(self.end_time, self.start_time)
    IN  IF total_duration = 0 THEN Ok(self.deposited_amount)
        ELSE LET m == checked_mul_u128(self.deposited_amount, as_u128(elapsed_time))
             IN  IF ~m.ok THEN m
                 ELSE LET streamed_amount == as_u64(m.val \div as_u128(total_duration))
                      IN  Ok(min(streamed_amount, self.deposited_amount))

\* Stream::calculate_cliff_amount
calculate_cliff_amount(self, current_time) ==
    IF current_time < self.cliff_time THEN Ok(0)
    ELSE IF current_time < self.start_time THEN Ok(0)
    ELSE
      LET cliff_released == IF current_time >= self.cliff_time THEN self.cliff_amount ELSE 0
          remaining_amount == saturating_sub(self.deposited_amount, self.cliff_amount)
          effective_time == min(current_time, self.end_time)
          elapsed_time == saturating_sub_i64(effective_time, self.start_time)
          total_duration == saturating_sub_i64(self.end_time, self.start_time)
          m == checked_mul_u128(remaining_amount, as_u128(elapsed_time))
          linear_amount ==
            IF current_time > self.start_time /\ remaining_amount > 0
            THEN IF total_duration > 0
                 THEN IF ~m.ok THEN m ELSE Ok(as_u64(m.val \div as_u128(total_duration)))
                 ELSE Ok(remaining_amount)
            ELSE Ok(0)
      IN  IF ~linear_amount.ok THEN linear_amount
          ELSE Ok(saturating_add(cliff_released, linear_amount.val))

\* Stream::calculate_step_amount
calculate_step_amount(self, current_time) ==
    IF current_time < self.start_time THEN Ok(0)
    ELSE
      LET elapsed_time == saturating_sub_i64(current_time, self.start_time)
      IN  IF self.rate_interval_in_seconds = 0 THEN Panic
          ELSE
            LET intervals_passed == elapsed_time \div self.rate_interval_in_seconds
                amount_per_interval == self.rate_amount
                p == checked_mul_i64(intervals_passed, as_i64(amount_per_interval))
            IN  IF ~p.ok THEN p
                ELSE LET total_released == as_u64(p.val)
                     IN  Ok(min(total_released, self.deposited_amount))

\* Stream::calculate_custom_amount, releasing the whole deposit at once
calculate_custom_amount_at_once(self, current_time) ==
    Ok(self.deposited_amount)

\* Stream::calculate_custom_amount
calculate_custom_amount(self, current_time) ==
    calculate_linear_amount(self, current_time)

\* Stream::calculate_streamed_amount
calculate_streamed_amount(self, current_time) ==
    IF current_time < self.start_time THEN Ok(0)
    ELSE CASE self.stream_type = "Linear" -> calculate_linear_amount(self, current_time)
           [] self.stream_type = "Cliff"  -> calculate_cliff_amount(self, current_time)
           [] self.stream_type = "Step"   -> calculate_step_amount(self, current_time)
           [] self.stream_type = "Custom" -> calculate_custom_amount(self, current_time)

\* Stream::withdrawable_amount, without the test of the status
withdrawable_amount_any_status(self, current_time) ==
    LET total_streamed == calculate_streamed_amount(self, current_time)
    IN  IF ~total_streamed.ok THEN total_streamed
        ELSE Ok(saturating_sub(total_streamed.val, self.withdrawn_amount))

\* Stream::withdrawable_amount
withdrawable_amount(self, current_time) ==
    IF self.status # "Streaming" THEN Ok(0)
    ELSE LET total_streamed == calculate_streamed_amount(self, current_time)
         IN  IF ~total_streamed.ok THEN total_streamed
             ELSE Ok(saturating_sub(total_streamed.val, self.withdrawn_amount))

\* Stream::can_cancel
can_cancel(self, authority) ==
    IF self.status \in {"Streaming", "Paused", "Scheduled"}
    THEN \/ (self.cancelable_by_sender /\ authority = self.sender)
         \/ (self.cancelable_by_recipient /\ authority = self.recipient)
    ELSE FALSE

\* one fee of Stream::calculate_fees, with the division rounding up
fee_of_rounding_up(amount, percentage) ==
    IF percentage > 0
    THEN LET m == checked_mul_u128(amount, percentage)
         IN  IF ~m.ok THEN m
             ELSE Ok(as_u64((m.val + BPS_DENOMINATOR - 1) \div BPS_DENOMINATOR))
    ELSE Ok(0)

\* one fee of Stream::calculate_fees
fee_of(amount, percentage) ==
    IF percentage > 0
    THEN LET m == checked_mul_u128(amount, percentage)
         IN  IF ~m.ok THEN m ELSE Ok(as_u64(m.val \div BPS_DENOMINATOR))
    ELSE Ok(0)

\* Stream::calculate_fees: Ok(<<platform_fee, partner_fee>>) or the error
calculate_fees(self, amount) ==
    LET platform_fee == fee_of(amount, self.fee_percentage)
        partner_fee == fee_of(amount, self.partner_fee_percentage)
    IN  IF ~platform_fee.ok THEN [platform_fee EXCEPT !.val = <<0, 0>>]
        ELSE IF ~partner_fee.ok THEN [partner_fee EXCEPT !.val = <<0, 0>>]
        ELSE Ok(<<platform_fee.val, partner_fee.val>>)

(***************************************************************************)
(* state/mod.rs: utils.                                                    *)
(***************************************************************************)
VestingType == {"Linear", "Cliff", "Custom"}

\* utils::calculate_streamed_amount
utils_calculate_streamed_amount(total_amount, start_time, end_time, current_time, wraps) ==
    IF current_time <= start_time THEN Ok(0)
    ELSE IF current_time >= end_time THEN Ok(total_amount)
    ELSE
      LET elapsed == as_u64(current_time - start_time)
          duration == as_u64(end_time - start_time)
          product == mul_u64(total_amount, elapsed, wraps)
      IN  IF ~product.ok THEN product
          ELSE IF duration = 0 THEN Panic
          ELSE Ok(product.val \div duration)

\* utils::calculate_vested_amount
utils_calculate_vested_amount(total_amount, vesting_type, start_time, cliff_time, end_time, current_time, wraps) ==
    CASE vesting_type = "Linear" ->
           utils_calculate_streamed_amount(total_amount, start_time, end_time,
                                           current_time, wraps)
      [] vesting_type = "Cliff" ->
           IF is_some(cliff_time)
           THEN IF current_time >= unwrap(cliff_time) THEN Ok(total_amount) ELSE Ok(0)
           ELSE Ok(0)
      [] vesting_type = "Custom" ->
           utils_calculate_streamed_amount(total_amount, start_time, end_time,
                                           current_time, wraps)

\* utils::calculate_platform_fee; fee_bps is a u16
utils_calculate_platform_fee(amount, fee_bps, wraps) ==
    LET product == mul_u64(amount, fee_bps, wraps)
    IN  IF ~product.ok THEN product ELSE Ok(product.val \div 10000)

TreasuryRole == {"Owner", "Admin", "Member", "Viewer"}

\* utils::has_treasury_permission, with a Member passing for an Admin
has_treasury_permission_promoted(role, required_role) ==
    CASE role = "Owner" -> TRUE
      [] role = "Admin"  /\ required_role = "Admin"  -> TRUE
      [] role = "Admin"  /\ required_role = "Member" -> TRUE
      [] role = "Admin"  /\ required_role = "Viewer" -> TRUE
      [] role = "Member" /\ required_role = "Admin"  -> TRUE
      [] role = "Member" /\ required_role = "Member" -> TRUE
      [] role = "Member" /\ required_role = "Viewer" -> TRUE
      [] role = "Viewer" /\ required_role = "Viewer" -> TRUE
      [] OTHER -> FALSE

\* utils::has_treasury_permission
has_treasury_permission(role, required_role) ==
    CASE role = "Owner" -> TRUE
      [] role = "Admin"  /\ required_role = "Admin"  -> TRUE
      [] role = "Admin"  /\ required_role = "Member" -> TRUE
      [] role = "Admin"  /\ required_role = "Viewer" -> TRUE
      [] role = "Member" /\ required_role = "Member" -> TRUE
      [] role = "Member" /\ required_role = "Viewer" -> TRUE
      [] role = "Viewer" /\ required_role = "Viewer" -> TRUE
      [] OTHER -> FALSE

\* utils::is_valid_status_transition, with one match arm too many
is_valid_status_transition_reopen(from, to) ==
    CASE from = "Scheduled" /\ to = "Streaming" -> TRUE
      [] from = "Scheduled" /\ to = "Cancelled" -> TRUE
      [] from = "Streaming" /\ to = "Paused"    -> TRUE
      [] from = "Streaming" /\ to = "Cancelled" -> TRUE
      [] from = "Streaming" /\ to = "Completed" -> TRUE
      [] from = "Paused"    /\ to = "Streaming" -> TRUE
      [] from = "Paused"    /\ to = "Cancelled" -> TRUE
      [] from = "Completed" /\ to = "Streaming" -> TRUE
      [] OTHER -> FALSE

\* utils::is_valid_status_transition
is_valid_status_transition(from, to) ==
    CASE from = "Scheduled" /\ to = "Streaming" -> TRUE
      [] from = "Scheduled" /\ to = "Cancelled" -> TRUE
      [] from = "Streaming" /\ to = "Paused"    -> TRUE
      [] from = "Streaming" /\ to = "Cancelled" -> TRUE
      [] from = "Streaming" /\ to = "Completed" -> TRUE
      [] from = "Paused"    /\ to = "Streaming" -> TRUE
      [] from = "Paused"    /\ to = "Cancelled" -> TRUE
      [] OTHER -> FALSE

(***************************************************************************)
(* The accounts state/stream.rs is queried on.  The file has no            *)
(* constructor; the records are those that satisfy the data model's        *)
(* invariants: start_time < end_time, start_time <= cliff_time <= end_time,*)
(* cliff_amount <= deposited_amount, rate_interval > 0.                    *)
(***************************************************************************)
MaxInterval == 2

BpsInputs == {k * BpsStep : k \in 0..MaxBpsSteps}

StreamAccount(type, deposited, start, end, cliff_amount, cliff_time, rate, interval, fee, partner_fee) ==
    [created |-> TRUE, sender |-> Sender, recipient |-> "bob",
     deposited_amount |-> deposited, withdrawn_amount |-> 0,
     start_time |-> start, end_time |-> end,
     rate_amount |-> rate, rate_interval_in_seconds |-> interval,
     cancelable_by_sender |-> TRUE, cancelable_by_recipient |-> FALSE,
     status |-> "Streaming", stream_type |-> type,
     cliff_amount |-> cliff_amount, cliff_time |-> cliff_time,
     fee_percentage |-> fee, partner_fee_percentage |-> partner_fee]

TimeRanges == {r \in Times \X Times : r[1] < r[2]}

LinearAccounts ==
    {StreamAccount(ty, d, r[1], r[2], 0, r[1], 0, 1, 0, 0) :
        ty \in {"Linear", "Custom"}, d \in U64, r \in TimeRanges}

\* <<start_time, end_time, cliff_time>>
CliffTimes == {r \in Times \X Times \X Times : r[1] < r[2] /\ r[1] <= r[3] /\ r[3] <= r[2]}

CliffAccounts ==
    {StreamAccount("Cliff", c[1], r[1], r[2], c[2], r[3], 0, 1, 0, 0) :
        c \in {c \in U64 \X U64 : c[2] <= c[1]}, r \in CliffTimes}

StepAccounts ==
    {StreamAccount("Step", d, r[1], r[2], 0, r[1], rate, i, 0, 0) :
        d \in U64, r \in TimeRanges, rate \in U64, i \in 1..MaxInterval}

FeeAccounts ==
    {StreamAccount("Linear", U64_MAX, 0, MaxTime, 0, 0, 0, 1, f, p) :
        f \in BpsInputs, p \in BpsInputs}

\* records in every status, with every pair of cancel flags
CancelAccounts ==
    {[StreamAccount("Linear", U64_MAX, 0, MaxTime, 0, 0, 0, 1, 0, 0)
        EXCEPT !.status = st, !.cancelable_by_sender = cs,
               !.cancelable_by_recipient = cr] :
        st \in StreamStatus, cs \in BOOLEAN, cr \in BOOLEAN}

\* records in every status, with any part of the deposit withdrawn
WithdrawnAccounts ==
    {b \in {[a EXCEPT !.status = st, !.withdrawn_amount = w] :
               a \in LinearAccounts, st \in StreamStatus, w \in U64} :
        b.withdrawn_amount <= b.deposited_amount}

StreamAccounts ==
    LinearAccounts \cup CliffAccounts \cup StepAccounts \cup FeeAccounts
    \cup CancelAccounts \cup WithdrawnAccounts

InitStateStream ==
    /\ prog = "state_stream"
    /\ stream \in StreamAccounts
    /\ clock = 0
    /\ escrow = 0
    /\ ret = NoRet

\* a call of Stream::calculate_streamed_amount at any time
CalculateStreamedAmount ==
    /\ prog = "state_stream"
    /\ \E t \in Times :
         LET r == calculate_streamed_amount(stream, t)
         IN  /\ clock' = t
             /\ ret' = Ret("calculate_streamed_amount", <<t>>, r.err, r.val, FALSE)
    /\ UNCHANGED <<prog, stream, escrow>>

\* a call of Stream::calculate_fees on any amount
CalculateFees ==
    /\ prog = "state_stream"
    /\ \E amount \in U64 :
         LET r == calculate_fees(stream, amount)
         IN  ret' = Ret("calculate_fees", <<amount>>, r.err, r.val, FALSE)
    /\ UNCHANGED <<prog, stream, clock, escrow>>

\* a call of Stream::can_cancel for any authority
CanCancel ==
    /\ prog = "state_stream"
    /\ \E authority \in Pubkeys :
         ret' = Ret("can_cancel", <<authority>>, "Ok", can_cancel(stream, authority), FALSE)
    /\ UNCHANGED <<prog, stream, clock, escrow>>

\* a call of Stream::withdrawable_amount at any time
WithdrawableAmount ==
    /\ prog = "state_stream"
    /\ \E t \in Times :
         LET r == withdrawable_amount(stream, t)
         IN  /\ clock' = t
             /\ ret' = Ret("withdrawable_amount", <<t>>, r.err, r.val, FALSE)
    /\ UNCHANGED <<prog, stream, escrow>>

\* the times the utils functions are called with
UtilsTimes == 0..MaxUtilsTime
\* <<start_time, end_time>>
UtilsTimeRanges == {r \in UtilsTimes \X UtilsTimes : r[1] < r[2]}

\* the arguments the vesting functions of utils are called on (no account is
\* created): any amount and vesting type, start_time < end_time, and a
\* cliff, when there is one, in the range
UtilsArgs ==
    {a \in [created : {FALSE}, total_amount : U64, vesting_type : VestingType,
            start_time : UtilsTimes, end_time : UtilsTimes,
            cliff_time : {None} \cup {Some(x) : x \in UtilsTimes}] :
        /\ a.start_time < a.end_time
        /\ is_some(a.cliff_time) =>
             (a.start_time <= unwrap(a.cliff_time) /\ unwrap(a.cliff_time) <= a.end_time)}

\* the rates utils::calculate_platform_fee is called with: 0, rates small
\* enough for the product to fit the amount's width, and the rates of
\* BpsInputs
UtilsFeeBps == {0, 1, 2} \cup BpsInputs

\* the arguments utils::calculate_platform_fee is called on
UtilsFeeArgs == [created : {FALSE}, amount : U64, fee_bps : UtilsFeeBps]

\* the call is one of a vesting function / of the fee function
OnVestingArgs == prog = "state_utils" /\ stream \in UtilsArgs
OnFeeArgs == prog = "state_utils" /\ stream \in UtilsFeeArgs

\* the functions of enumerations take no numeric arguments (NoStream)
InitStateUtils ==
    /\ prog = "state_utils"
    /\ stream \in {NoStream} \cup UtilsArgs \cup UtilsFeeArgs
    /\ clock = 0
    /\ escrow = 0
    /\ ret = NoRet

\* a call of utils::is_valid_status_transition on any pair of statuses
IsValidStatusTransition ==
    /\ prog = "state_utils"
    /\ stream = NoStream
    /\ \E from \in StreamStatus, to \in StreamStatus :
         ret' = Ret("is_valid_status_transition", <<from, to>>, "Ok",
                    is_valid_status_transition(from, to), FALSE)
    /\ UNCHANGED <<prog, stream, clock, escrow>>

\* a call of utils::calculate_streamed_amount at any time
UtilsCalculateStreamedAmount ==
    /\ OnVestingArgs
    /\ \E t \in UtilsTimes, wraps \in BOOLEAN :
         LET v == utils_calculate_streamed_amount(stream.total_amount, stream.start_time,
                                                  stream.end_time, t, wraps)
         IN  ret' = Ret("utils_calculate_streamed_amount", <<t>>, v.err, v.val, FALSE)
    /\ UNCHANGED <<prog, stream, clock, escrow>>

\* a call of utils::calculate_vested_amount at any time
UtilsCalculateVestedAmount ==
    /\ OnVestingArgs
    /\ \E t \in UtilsTimes, wraps \in BOOLEAN :
         LET v == utils_calculate_vested_amount(stream.total_amount, stream.vesting_type,
                                                stream.start_time, stream.cliff_time,
                                                stream.end_time, t, wraps)
         IN  ret' = Ret("utils_calculate_vested_amount", <<t>>, v.err, v.val, FALSE)
    /\ UNCHANGED <<prog, stream, clock, escrow>>

\* a call of utils::calculate_platform_fee
UtilsCalculatePlatformFee ==
    /\ OnFeeArgs
    /\ \E wraps \in BOOLEAN :
         LET v == utils_calculate_platform_fee(stream.amount, stream.fee_bps, wraps)
         IN  ret' = Ret("calculate_platform_fee", <<>>, v.err, v.val, FALSE)
    /\ UNCHANGED <<prog, stream, clock, escrow>>

\* a call of utils::has_treasury_permission on any pair of roles
HasTreasuryPermission ==
    /\ prog = "state_utils"
    /\ stream = NoStream
    /\ \E role \in TreasuryRole, required_role \in TreasuryRole :
         ret' = Ret("has_treasury_permission", <<role, required_role>>, "Ok",
                    has_treasury_permission(role, required_role), FALSE)
    /\ UNCHANGED <<prog, stream, clock, escrow>>

InitState == InitStateStream \/ InitStateUtils
NextState ==
    \/ CalculateStreamedAmount
    \/ CalculateFees
    \/ CanCancel
    \/ WithdrawableAmount
    \/ IsValidStatusTransition
    \/ UtilsCalculateStreamedAmount
    \/ UtilsCalculateVestedAmount
    \/ UtilsCalculatePlatformFee
    \/ HasTreasuryPermission
SpecState == InitState /\ [][NextState]_vars

(***************************************************************************)
(* Handlers.  A handler maps the record, the escrow balance and the call's *)
(* inputs to an outcome: the error it returns ("Ok" on success), the       *)
(* record as the handler leaves it in memory (mem), the escrow balance     *)
(* after its token transfers, and two results x, y.  A token transfer      *)
(* fails when its source account holds less than the amount.  The runtime  *)
(* commits mem and the transfers when the handler returns Ok and discards  *)
(* them when it returns an error or panics.                                *)
(***************************************************************************)
Outcome(err, mem, esc, x, y) == [err |-> err, mem |-> mem, escrow |-> esc, x |-> x, y |-> y]

\* an error returned before the handler has written anything
Fail(s, esc, err) == Outcome(err, s, esc, 0, 0)

Commit(op, out) ==
    /\ stream' = IF out.err = "Ok" THEN out.mem ELSE stream
    /\ escrow' = IF out.err = "Ok" THEN out.escrow ELSE escrow
    /\ ret' = Ret(op, <<>>, out.err, <<out.x, out.y>>, out.err # "Ok" /\ out.mem # stream)
    /\ UNCHANGED <<prog, clock>>

\* Clock::get() never goes back
Tick ==
    /\ prog \in {"lib", "ix_withdraw", "ix_cancel"}
    /\ clock < MaxTime
    /\ clock' = clock + 1
    /\ ret' = Ret("tick", <<>>, "Ok", 0, FALSE)
    /\ UNCHANGED <<prog, stream, escrow>>

\* what the signer's token account may hold while the escrow holds esc:
\* nothing, or all the rest of the supply
SenderBalances(esc) == {0, U64_MAX - esc}

(***************************************************************************)
(* lib.rs                                                                  *)
(***************************************************************************)
\* calculate_withdrawable_amount (lib.rs), without the test of cliff_time
lib_calculate_withdrawable_amount_before_cliff(s, current_time) ==
    IF current_time < s.start_time THEN Ok(0)
    ELSE
      LET elapsed_time == IF current_time >= s.end_time
                          THEN s.end_time - s.start_time
                          ELSE current_time - s.start_time
          total_duration == s.end_time - s.start_time
      IN  IF total_duration = 0 THEN Panic
          ELSE LET vested_amount ==
                     as_u64((s.deposit_amount * as_u128(elapsed_time))
                            \div as_u128(total_duration))
               IN  Ok(saturating_sub(vested_amount, s.withdrawn_amount))

\* calculate_withdrawable_amount (lib.rs)
lib_calculate_withdrawable_amount(s, current_time) ==
    IF current_time < s.start_time THEN Ok(0)
    ELSE IF is_some(s.cliff_time) /\ current_time < unwrap(s.cliff_time) THEN Ok(0)
    ELSE
      LET elapsed_time == IF current_time >= s.end_time
                          THEN s.end_time - s.start_time
                          ELSE current_time - s.start_time
          total_duration == s.end_time - s.start_time
      IN  IF total_duration = 0 THEN Panic
          ELSE LET vested_amount ==
                     as_u64((s.deposit_amount * as_u128(elapsed_time))
                            \div as_u128(total_duration))
               IN  Ok(saturating_sub(vested_amount, s.withdrawn_amount))

\* create_stream
lib_create_stream(sender, recipient, deposit_amount, start_time, end_time, cliff_time, flags, sender_balance) ==
    IF ~(start_time < end_time) THEN Fail(NoStream, 0, "InvalidTimeRange")
    ELSE IF ~(deposit_amount > 0) THEN Fail(NoStream, 0, "InvalidAmount")
    ELSE IF is_some(cliff_time)
            /\ ~(unwrap(cliff_time) >= start_time /\ unwrap(cliff_time) <= end_time)
    THEN Fail(NoStream, 0, "InvalidCliffTime")
    ELSE
      LET mem == [created |-> TRUE,
                  sender |-> sender,
                  recipient |-> recipient,
                  mint |-> "mint",
                  deposit_amount |-> deposit_amount,
                  withdrawn_amount |-> 0,
                  start_time |-> start_time,
                  end_time |-> end_time,
                  cliff_time |-> cliff_time,
                  cancelable_by_sender |-> flags[1],
                  cancelable_by_recipient |-> flags[2],
                  transferable_by_sender |-> flags[3],
                  transferable_by_recipient |-> flags[4],
                  last_withdrawal_time |-> start_time,
                  canceled_at |-> None,
                  canceled_by |-> None,
                  paused |-> FALSE]
      IN  IF sender_balance < deposit_amount
          THEN Outcome("TokenTransferFailed", mem, 0, 0, 0)
          ELSE Outcome("Ok", mem, deposit_amount, 0, 0)

\* withdraw, without the test of the amount against what is withdrawable
lib_withdraw_unvested(s, esc, current_time, authority, amount, wraps) ==
    IF s.paused THEN Fail(s, esc, "StreamPaused")
    ELSE IF is_some(s.canceled_at) THEN Fail(s, esc, "StreamCanceled")
    ELSE IF authority # s.recipient THEN Fail(s, esc, "UnauthorizedRecipient")
    ELSE
      LET sum == add_u64(s.withdrawn_amount, amount, wraps)
          mem == [s EXCEPT !.withdrawn_amount = sum.val,
                           !.last_withdrawal_time = current_time]
      IN  IF ~sum.ok THEN Fail(s, esc, sum.err)
          ELSE IF esc < amount THEN Outcome("TokenTransferFailed", mem, esc, 0, 0)
          ELSE Outcome("Ok", mem, esc - amount, amount, 0)

\* withdraw, without the test of the authority
lib_withdraw_by_anyone(s, esc, current_time, authority, amount, wraps) ==
    IF s.paused THEN Fail(s, esc, "StreamPaused")
    ELSE IF is_some(s.canceled_at) THEN Fail(s, esc, "StreamCanceled")
    ELSE
      LET w == lib_calculate_withdrawable_amount(s, current_time)
          sum == add_u64(s.withdrawn_amount, amount, wraps)
          mem == [s EXCEPT !.withdrawn_amount = sum.val,
                           !.last_withdrawal_time = current_time]
      IN  IF ~w.ok THEN Fail(s, esc, w.err)
          ELSE IF ~(amount <= w.val) THEN Fail(s, esc, "InsufficientFunds")
          ELSE IF ~sum.ok THEN Fail(s, esc, sum.err)
          ELSE IF esc < amount THEN Outcome("TokenTransferFailed", mem, esc, 0, 0)
          ELSE Outcome("Ok", mem, esc - amount, amount, 0)

\* withdraw, without the test of the paused flag
lib_withdraw_while_paused(s, esc, current_time, authority, amount, wraps) ==
    IF is_some(s.canceled_at) THEN Fail(s, esc, "StreamCanceled")
    ELSE IF authority # s.recipient THEN Fail(s, esc, "UnauthorizedRecipient")
    ELSE
      LET w == lib_calculate_withdrawable_amount(s, current_time)
          sum == add_u64(s.withdrawn_amount, amount, wraps)
          mem == [s EXCEPT !.withdrawn_amount = sum.val,
                           !.last_withdrawal_time = current_time]
      IN  IF ~w.ok THEN Fail(s, esc, w.err)
          ELSE IF ~(amount <= w.val) THEN Fail(s, esc, "InsufficientFunds")
          ELSE IF ~sum.ok THEN Fail(s, esc, sum.err)
          ELSE IF esc < amount THEN Outcome("TokenTransferFailed", mem, esc, 0, 0)
          ELSE Outcome("Ok", mem, esc - amount, amount, 0)

\* withdraw
lib_withdraw(s, esc, current_time, authority, amount, wraps) ==
    IF s.paused THEN Fail(s, esc, "StreamPaused")
    ELSE IF is_some(s.canceled_at) THEN Fail(s, esc, "StreamCanceled")
    ELSE IF authority # s.recipient THEN Fail(s, esc, "UnauthorizedRecipient")
    ELSE
      LET w == lib_calculate_withdrawable_amount(s, current_time)
          sum == add_u64(s.withdrawn_amount, amount, wraps)
          mem == [s EXCEPT !.withdrawn_amount = sum.val,
                           !.last_withdrawal_time = current_time]
      IN  IF ~w.ok THEN Fail(s, esc, w.err)
          ELSE IF ~(amount <= w.val) THEN Fail(s, esc, "InsufficientFunds")
          ELSE IF ~sum.ok THEN Fail(s, esc, sum.err)
          ELSE IF esc < amount THEN Outcome("TokenTransferFailed", mem, esc, 0, 0)
          ELSE Outcome("Ok", mem, esc - amount, amount, 0)

\* cancel_stream; x is the amount paid to the recipient, y the amount
\* returned to the sender
lib_cancel_stream(s, esc, current_time, authority, wraps) ==
    IF is_some(s.canceled_at) THEN Fail(s, esc, "StreamAlreadyCanceled")
    ELSE IF s.paused THEN Fail(s, esc, "StreamPaused")
    ELSE
      LET can_cancel_flag ==
            IF authority = s.sender THEN s.cancelable_by_sender
            ELSE IF authority = s.recipient THEN s.cancelable_by_recipient
            ELSE FALSE
          w == lib_calculate_withdrawable_amount(s, current_time)
          remaining_amount == sub_u64(s.deposit_amount, s.withdrawn_amount, wraps)
          mem1 == [s EXCEPT !.canceled_at = Some(current_time),
                            !.canceled_by = Some(authority)]
          sum == add_u64(s.withdrawn_amount, w.val, wraps)
          mem2 == IF w.val > 0 THEN [mem1 EXCEPT !.withdrawn_amount = sum.val] ELSE mem1
          return_amount == sub_u64(remaining_amount.val, w.val, wraps)
      IN  IF ~can_cancel_flag THEN Fail(s, esc, "UnauthorizedCancel")
          ELSE IF ~w.ok THEN Fail(s, esc, w.err)
          ELSE IF ~remaining_amount.ok THEN Fail(s, esc, remaining_amount.err)
          ELSE IF w.val > 0 /\ ~sum.ok THEN Outcome(sum.err, mem1, esc, 0, 0)
          ELSE IF w.val > 0 /\ esc < w.val
          THEN Outcome("TokenTransferFailed", mem2, esc, 0, 0)
          ELSE IF ~return_amount.ok THEN Outcome(return_amount.err, mem2, esc, 0, 0)
          ELSE IF return_amount.val > 0 /\ esc - w.val < return_amount.val
          THEN Outcome("TokenTransferFailed", mem2, esc, 0, 0)
          ELSE Outcome("Ok", mem2, esc - w.val - return_amount.val, w.val,
                       return_amount.val)

\* pause_stream, clearing cancelable_by_sender as well
lib_pause_stream_locking(s, esc, authority) ==
    IF authority # s.sender THEN Fail(s, esc, "UnauthorizedSender")
    ELSE IF s.paused THEN Fail(s, esc, "StreamAlreadyPaused")
    ELSE IF is_some(s.canceled_at) THEN Fail(s, esc, "StreamCanceled")
    ELSE Outcome("Ok", [s EXCEPT !.paused = TRUE, !.cancelable_by_sender = FALSE],
                 esc, 0, 0)

\* pause_stream
lib_pause_stream(s, esc, authority) ==
    IF authority # s.sender THEN Fail(s, esc, "UnauthorizedSender")
    ELSE IF s.paused THEN Fail(s, esc, "StreamAlreadyPaused")
    ELSE IF is_some(s.canceled_at) THEN Fail(s, esc, "StreamCanceled")
    ELSE Outcome("Ok", [s EXCEPT !.paused = TRUE], esc, 0, 0)

\* resume_stream, without the test of the authority
lib_resume_stream_by_anyone(s, esc, authority) ==
    IF ~s.paused THEN Fail(s, esc, "StreamNotPaused")
    ELSE IF is_some(s.canceled_at) THEN Fail(s, esc, "StreamCanceled")
    ELSE Outcome("Ok", [s EXCEPT !.paused = FALSE], esc, 0, 0)

\* resume_stream
lib_resume_stream(s, esc, authority) ==
    IF authority # s.sender THEN Fail(s, esc, "UnauthorizedSender")
    ELSE IF ~s.paused THEN Fail(s, esc, "StreamNotPaused")
    ELSE IF is_some(s.canceled_at) THEN Fail(s, esc, "StreamCanceled")
    ELSE Outcome("Ok", [s EXCEPT !.paused = FALSE], esc, 0, 0)

\* transfer_stream, without the test of canceled_at
lib_transfer_stream_of_canceled(s, esc, authority, new_recipient) ==
    LET can_transfer == IF authority = s.sender THEN s.transferable_by_sender
                        ELSE IF authority = s.recipient THEN s.transferable_by_recipient
                        ELSE FALSE
    IN  IF ~can_transfer THEN Fail(s, esc, "UnauthorizedTransfer")
        ELSE Outcome("Ok", [s EXCEPT !.recipient = new_recipient], esc, 0, 0)

\* transfer_stream
lib_transfer_stream(s, esc, authority, new_recipient) ==
    LET can_transfer == IF authority = s.sender THEN s.transferable_by_sender
                        ELSE IF authority = s.recipient THEN s.transferable_by_recipient
                        ELSE FALSE
    IN  IF ~can_transfer THEN Fail(s, esc, "UnauthorizedTransfer")
        ELSE IF is_some(s.canceled_at) THEN Fail(s, esc, "StreamCanceled")
        ELSE Outcome("Ok", [s EXCEPT !.recipient = new_recipient], esc, 0, 0)

\* topup_stream
lib_topup_stream(s, esc, authority, amount, sender_balance, wraps) ==
    IF authority # s.sender THEN Fail(s, esc, "UnauthorizedSender")
    ELSE IF ~(amount > 0) THEN Fail(s, esc, "InvalidAmount")
    ELSE IF is_some(s.canceled_at) THEN Fail(s, esc, "StreamCanceled")
    ELSE
      LET sum == add_u64(s.deposit_amount, amount, wraps)
          mem == [s EXCEPT !.deposit_amount = sum.val]
      IN  IF ~sum.ok THEN Fail(s, esc, sum.err)
          ELSE IF sender_balance < amount \/ esc + amount > U64_MAX
          THEN Outcome("TokenTransferFailed", mem, esc, 0, 0)
          ELSE Outcome("Ok", mem, esc + amount, 0, 0)

InitLib ==
    /\ prog = "lib"
    /\ stream = NoStream
    /\ clock = 0
    /\ escrow = 0
    /\ ret = NoRet

\* the amounts a caller asks to withdraw or to top up
AmountArgs == 0..MaxArg
\* the cliff times a caller passes to create_stream
CliffTimeArgs == {None} \cup {Some(t) : t \in 1..MaxTime}
\* whom a stream is transferred to
NewRecipients == {"carol"}
\* <<cancelable_by_sender, cancelable_by_recipient, transferable_by_sender,
\*   transferable_by_recipient>>
Flags == {<<a, ~a, ~a, a>> : a \in BOOLEAN}

CreateStream ==
    /\ prog = "lib"
    /\ ~stream.created
    /\ \E deposit_amount \in U64, start_time \in Times, end_time \in Times,
          cliff_time \in CliffTimeArgs, flags \in Flags,
          sender_balance \in SenderBalances(0) :
         Commit("create_stream",
                lib_create_stream(Sender, "bob", deposit_amount, start_time, end_time,
                                  cliff_time, flags, sender_balance))

Withdraw ==
    /\ prog = "lib"
    /\ stream.created
    /\ \E authority \in Pubkeys, amount \in AmountArgs, wraps \in BOOLEAN :
         Commit("withdraw",
                lib_withdraw(stream, escrow, clock, authority, amount, wraps))

CancelStream ==
    /\ prog = "lib"
    /\ stream.created
    /\ \E authority \in Pubkeys, wraps \in BOOLEAN :
         Commit("cancel_stream",
                lib_cancel_stream(stream, escrow, clock, authority, wraps))

PauseStream ==
    /\ prog = "lib"
    /\ stream.created
    /\ \E authority \in Pubkeys :
         Commit("pause_stream",
                lib_pause_stream(stream, escrow, authority))

ResumeStream ==
    /\ prog = "lib"
    /\ stream.created
    /\ \E authority \in Pubkeys :
         Commit("resume_stream",
                lib_resume_stream(stream, escrow, authority))

TransferStream ==
    /\ prog = "lib"
    /\ stream.created
    /\ \E authority \in Pubkeys, new_recipient \in NewRecipients :
         Commit("transfer_stream",
                lib_transfer_stream(stream, escrow, authority, new_recipient))

TopupStream ==
    /\ prog = "lib"
    /\ stream.created
    /\ \E authority \in Pubkeys, amount \in AmountArgs,
          sender_balance \in SenderBalances(escrow), wraps \in BOOLEAN :
         Commit("topup_stream",
                lib_topup_stream(stream, escrow, authority, amount, sender_balance, wraps))

\* the token program credits the escrow token account on a transfer from any
\* holder of the mint: the account is an ordinary token account, and no
\* instruction of the program is involved
CreditEscrow ==
    /\ prog = "lib"
    /\ stream.created
    /\ escrow < U64_MAX
    /\ escrow - (stream.deposit_amount - stream.withdrawn_amount) < MaxSurplus
    /\ escrow' = escrow + 1
    /\ ret' = Ret("credit_escrow", <<>>, "Ok", 0, FALSE)
    /\ UNCHANGED <<prog, stream, clock>>

NextLib ==
    \/ Tick
    \/ CreateStream
    \/ Withdraw
    \/ CancelStream
    \/ PauseStream
    \/ ResumeStream
    \/ TransferStream
    \/ TopupStream
    \/ CreditEscrow

SpecLib == InitLib /\ [][NextLib]_vars

(***************************************************************************)
(* instructions/withdraw.rs                                                *)
(***************************************************************************)
\* u64::checked_sub(...).unwrap_or(0)
checked_sub_or_0(a, b) == IF a >= b THEN a - b ELSE 0

\* Stream::calculate_withdrawable_amount (instructions/withdraw.rs), with the
\* division rounding up
ix_calculate_withdrawable_amount_rounding_up(self, current_time) ==
    IF current_time < self.start_time THEN Ok(0)
    ELSE IF is_some(self.end_time) /\ current_time >= unwrap(self.end_time)
    THEN Ok(checked_sub_or_0(self.deposited_amount, self.withdrawn_amount))
    ELSE
      LET time_elapsed == current_time - self.start_time
          total_duration == unwrap_or(self.end_time, current_time) - self.start_time
          m == checked_mul_u128(self.deposited_amount, as_u128(time_elapsed))
          streamed_amount ==
            min(as_u64((m.val + as_u128(total_duration) - 1) \div as_u128(total_duration)),
                self.deposited_amount)
      IN  IF self.stream_type = "Cliff"
             /\ current_time < self.start_time + unwrap_or(self.cliff_amount, 0)
          THEN Ok(0)
          ELSE IF total_duration = 0
          THEN Ok(checked_sub_or_0(self.deposited_amount, self.withdrawn_amount))
          ELSE IF ~m.ok THEN m
          ELSE Ok(checked_sub_or_0(streamed_amount, self.withdrawn_amount))

\* Stream::calculate_withdrawable_amount (instructions/withdraw.rs)
ix_calculate_withdrawable_amount(self, current_time) ==
    IF current_time < self.start_time THEN Ok(0)
    ELSE IF is_some(self.end_time) /\ current_time >= unwrap(self.end_time)
    THEN Ok(checked_sub_or_0(self.deposited_amount, self.withdrawn_amount))
    ELSE
      LET time_elapsed == current_time - self.start_time
          total_duration == unwrap_or(self.end_time, current_time) - self.start_time
          m == checked_mul_u128(self.deposited_amount, as_u128(time_elapsed))
          streamed_amount == min(as_u64(m.val \div as_u128(total_duration)),
                                 self.deposited_amount)
      IN  IF self.stream_type = "Cliff"
             /\ current_time < self.start_time + unwrap_or(self.cliff_amount, 0)
          THEN Ok(0)
          ELSE IF total_duration = 0
          THEN Ok(checked_sub_or_0(self.deposited_amount, self.withdrawn_amount))
          ELSE IF ~m.ok THEN m
          ELSE Ok(checked_sub_or_0(streamed_amount, self.withdrawn_amount))

\* the Withdraw accounts' constraints, then handler; amount is an Option
ix_withdraw_handler(s, esc, current_time, authority, amount) ==
    IF authority # s.recipient THEN Fail(s, esc, "ConstraintHasOne")
    ELSE IF ~s.is_active THEN Fail(s, esc, "StreamNotActive")
    ELSE
      LET w == ix_calculate_withdrawable_amount(s, current_time)
          withdrawal_amount == IF is_some(amount) THEN unwrap(amount) ELSE w.val
          sum == checked_add(s.withdrawn_amount, withdrawal_amount)
          mem1 == [s EXCEPT !.withdrawn_amount = sum.val,
                            !.last_withdrawn_at = current_time]
          mem2 == IF mem1.withdrawn_amount >= mem1.deposited_amount
                  THEN [mem1 EXCEPT !.is_active = FALSE, !.end_time = Some(current_time)]
                  ELSE mem1
      IN  IF ~w.ok THEN Fail(s, esc, w.err)
          ELSE IF ~(w.val > 0) THEN Fail(s, esc, "NoTokensToWithdraw")
          ELSE IF is_some(amount) /\ ~(unwrap(amount) <= w.val)
          THEN Fail(s, esc, "InsufficientWithdrawableBalance")
          ELSE IF ~sum.ok THEN Fail(s, esc, sum.err)
          ELSE IF esc < withdrawal_amount
          THEN Outcome("TokenTransferFailed", mem2, esc, 0, 0)
          ELSE Outcome("Ok", mem2, esc - withdrawal_amount, withdrawal_amount, 0)

\* the stream accounts the withdraw instruction starts from: nothing
\* withdrawn, active, the deposit held by the stream's token account, the
\* end of the cliff period (start_time + cliff_amount) not after end_time
IxWithdrawAccounts ==
    {a \in {[created |-> TRUE, sender |-> Sender, recipient |-> "bob", mint |-> "mint",
             deposited_amount |-> d, withdrawn_amount |-> 0,
             start_time |-> r[1], end_time |-> IF has_end THEN Some(r[2]) ELSE None,
             stream_type |-> ty, is_active |-> TRUE, cliff_amount |-> c,
             last_withdrawn_at |-> r[1]] :
               d \in 1..U64_MAX, r \in TimeRanges, has_end \in BOOLEAN,
               ty \in {"Linear", "Cliff"},
               c \in {None} \cup {Some(n) : n \in 1..MaxTime}} :
        is_some(a.cliff_amount) =>
          a.start_time + unwrap(a.cliff_amount) <= unwrap_or(a.end_time, MaxTime)}

InitIxWithdraw ==
    /\ prog = "ix_withdraw"
    /\ stream \in IxWithdrawAccounts
    /\ clock = 0
    /\ escrow = stream.deposited_amount
    /\ ret = NoRet

AmountOptions == {None} \cup {Some(a) : a \in AmountArgs}

IxWithdraw ==
    /\ prog = "ix_withdraw"
    /\ \E authority \in Pubkeys, amount \in AmountOptions :
         Commit("withdraw",
                ix_withdraw_handler(stream, escrow, clock, authority, amount))

(***************************************************************************)
(* instructions/cancel_stream.rs                                           *)
(***************************************************************************)
\* CancelStream::calculate_amounts: <<available_streamed, remaining_amount>>
ix_calculate_amounts(s, esc, current_time) ==
    LET elapsed_time == saturating_sub_i64(current_time, s.start_time)
        stream_duration == saturating_sub_i64(s.end_time, s.start_time)
        streamed_amount ==
          IF elapsed_time >= stream_duration THEN s.amount
          ELSE IF elapsed_time <= 0 THEN 0
          ELSE as_u64((s.amount * as_u128(elapsed_time)) \div as_u128(stream_duration))
        available_streamed == saturating_sub(streamed_amount, s.withdrawn_amount)
        total_in_escrow == esc
        remaining_amount == saturating_sub(total_in_escrow, available_streamed)
    IN  <<available_streamed, remaining_amount>>

\* the CancelStream accounts' constraints, then CancelStream::cancel_stream;
\* x is the amount paid to the recipient, y the amount returned to the sender
ix_cancel_stream(s, esc, current_time, authority) ==
    IF s.status # "Active" THEN Fail(s, esc, "StreamNotActive")
    ELSE IF s.sender # authority THEN Fail(s, esc, "Unauthorized")
    ELSE
      LET amounts == ix_calculate_amounts(s, esc, current_time)
          streamed_amount == amounts[1]
          remaining_amount == amounts[2]
          mem1 == [s EXCEPT !.status = "Cancelled", !.cancelled_at = Some(current_time)]
          sum == checked_add(s.withdrawn_amount, streamed_amount)
          mem2 == [mem1 EXCEPT !.withdrawn_amount = sum.val]
      IN  IF streamed_amount > 0 /\ esc < streamed_amount
          THEN Fail(s, esc, "TokenTransferFailed")
          ELSE IF remaining_amount > 0 /\ esc - streamed_amount < remaining_amount
          THEN Fail(s, esc, "TokenTransferFailed")
          ELSE IF ~sum.ok THEN Outcome(sum.err, mem1, esc, 0, 0)
          ELSE Outcome("Ok", mem2, esc - streamed_amount - remaining_amount,
                       streamed_amount, remaining_amount)

\* the stream accounts the cancel instruction starts from: active, with any
\* amount withdrawn so far and any balance in the escrow token account
IxCancelAccounts ==
    {[created |-> TRUE, sender |-> Sender, recipient |-> "bob", mint |-> "mint",
      amount |-> a[1], withdrawn_amount |-> a[2],
      start_time |-> r[1], end_time |-> r[2],
      status |-> "Active", cancelled_at |-> None] :
        a \in {a \in U64 \X U64 : a[1] > 0 /\ a[2] <= a[1]}, r \in TimeRanges}

InitIxCancel ==
    /\ prog = "ix_cancel"
    /\ stream \in IxCancelAccounts
    /\ clock = 0
    /\ escrow \in U64
    /\ ret = NoRet

IxCancelStream ==
    /\ prog = "ix_cancel"
    /\ \E authority \in Pubkeys :
         Commit("cancel_stream", ix_cancel_stream(stream, escrow, clock, authority))

InitIx == InitIxWithdraw \/ InitIxCancel
NextIx == Tick \/ IxWithdraw \/ IxCancelStream
SpecIx == InitIx /\ [][NextIx]_vars

(***************************************************************************)
(* All the programs.                                                       *)
(***************************************************************************)
Init == InitLib \/ InitIxWithdraw \/ InitIxCancel \/ InitStateStream \/ InitStateUtils

Next ==
    \/ Tick
    \/ CreateStream
    \/ Withdraw
    \/ CancelStream
    \/ PauseStream
    \/ ResumeStream
    \/ TransferStream
    \/ TopupStream
    \/ CreditEscrow
    \/ IxWithdraw
    \/ IxCancelStream
    \/ CalculateStreamedAmount
    \/ CalculateFees
    \/ CanCancel
    \/ WithdrawableAmount
    \/ IsValidStatusTransition
    \/ UtilsCalculateStreamedAmount
    \/ UtilsCalculateVestedAmount
    \/ UtilsCalculatePlatformFee
    \/ HasTreasuryPermission

Spec == Init /\ [][Next]_vars

\* the instruction files and the state module, without lib.rs
SpecIxState == (InitIx \/ InitState) /\ [][NextIx \/ NextState]_vars

(***************************************************************************)
(* Properties.                                                             *)
(***************************************************************************)
Lifecycle == prog \in {"lib", "ix_withdraw", "ix_cancel"} /\ stream.created

\* the deposit of a record, whichever program it belongs to
Deposited(s) ==
    CASE prog = "lib" -> s.deposit_amount
      [] prog = "ix_cancel" -> s.amount
      [] OTHER -> s.deposited_amount

\* fully withdrawn
FullyWithdrawn(s) == s.withdrawn_amount >= Deposited(s)

\* C1: in every reachable state of the lifecycle programs withdrawn_amount <=
\* deposited_amount, and withdraw never returns the overflow error of its
\* addition to withdrawn_amount.
C1_WithdrawnWithinDeposit ==
    Lifecycle =>
        /\ stream.withdrawn_amount <= Deposited(stream)
        /\ ~(ret.op = "withdraw" /\ ret.err \in {"MathOverflow", "panic"})

\* C2: a successful cancel pays the recipient and the sender amounts that are
\* not negative and add up to the escrow balance it found.
C2_CancelConserves ==
    [][(Lifecycle /\ ret'.op = "cancel_stream" /\ ret'.err = "Ok") =>
         /\ ret'.val[1] >= 0
         /\ ret'.val[2] >= 0
         /\ ret'.val[1] + ret'.val[2] = escrow]_vars

\* C3: calculate_streamed_amount never returns more than deposited_amount.
C3_StreamedBounded ==
    (prog = "state_stream" /\ ret.op = "calculate_streamed_amount" /\ ret.err = "Ok") =>
        ret.val <= stream.deposited_amount

\* a Step stream whose rate exceeds the deposit returns the whole deposit
C3_Witness ==
    /\ prog = "state_stream"
    /\ ret.op = "calculate_streamed_amount" /\ ret.err = "Ok"
    /\ stream.stream_type = "Step"
    /\ stream.rate_amount > stream.deposited_amount
    /\ stream.rate_amount <= I64_MAX
    /\ stream.deposited_amount > 0
    /\ ret.val = stream.deposited_amount

\* C4: calculate_streamed_amount is non-decreasing in the query time.
C4_StreamedMonotonic ==
    [][(/\ prog = "state_stream"
        /\ ret.op = "calculate_streamed_amount" /\ ret.err = "Ok"
        /\ ret'.op = "calculate_streamed_amount" /\ ret'.err = "Ok"
        /\ ret.args[1] <= ret'.args[1]) =>
         ret.val <= ret'.val]_vars

\* C5: on a fully withdrawn stream every withdraw fails and changes no field.
C5_CompletedWithdrawFails ==
    [][(/\ prog \in {"lib", "ix_withdraw"}
        /\ stream.created
        /\ FullyWithdrawn(stream)
        /\ ret'.op = "withdraw") =>
         (ret'.err # "Ok" /\ stream' = stream)]_vars

\* C6: with fee_bps + partner_fee_bps <= 10000 the two fees are returned and
\* add up to at most the amount.
C6_FeesWithinAmount ==
    (/\ prog = "state_stream"
     /\ ret.op = "calculate_fees"
     /\ stream.fee_percentage + stream.partner_fee_percentage <= BPS_DENOMINATOR) =>
        /\ ret.err = "Ok"
        /\ ret.val[1] + ret.val[2] <= ret.args[1]

\* both fees are charged at rates that add up to the whole
C6_Witness ==
    /\ prog = "state_stream"
    /\ ret.op = "calculate_fees" /\ ret.err = "Ok"
    /\ stream.fee_percentage + stream.partner_fee_percentage = BPS_DENOMINATOR
    /\ ret.val[1] > 0 /\ ret.val[2] > 0
    /\ ret.val[1] + ret.val[2] < ret.args[1]

\* C7: calculate_fees fails whenever fee_bps + partner_fee_bps > 10000.
C7_FeeConfigRejected ==
    (/\ prog = "state_stream"
     /\ ret.op = "calculate_fees"
     /\ stream.fee_percentage + stream.partner_fee_percentage > BPS_DENOMINATOR) =>
        ret.err # "Ok"

Terminal(s) ==
    CASE prog = "lib" -> is_some(s.canceled_at) \/ FullyWithdrawn(s)
      [] prog = "ix_withdraw" -> ~s.is_active
      [] OTHER -> s.status = "Cancelled"

\* the fields that hold the status of a lifecycle record
StatusFields(s) ==
    CASE prog = "lib" -> <<s.paused, s.canceled_at, s.canceled_by>>
      [] prog = "ix_withdraw" -> <<s.is_active>>
      [] OTHER -> <<s.status, s.cancelled_at>>

\* C9: once a stream is cancelled or completed, no operation changes its
\* status, its paused flag or its cancelled_at / cancelled_by fields.
C9_TerminalIsFinal ==
    [][(Lifecycle /\ Terminal(stream)) =>
         (Terminal(stream') /\ StatusFields(stream') = StatusFields(stream))]_vars

\* the seven legal transitions
LegalTransitions ==
    {<<"Scheduled", "Streaming">>, <<"Scheduled", "Cancelled">>,
     <<"Streaming", "Paused">>, <<"Streaming", "Cancelled">>,
     <<"Streaming", "Completed">>, <<"Paused", "Streaming">>,
     <<"Paused", "Cancelled">>}

\* C10: is_valid_status_transition is true for exactly the seven legal pairs.
C10_TransitionTable ==
    (prog = "state_utils" /\ ret.op = "is_valid_status_transition") =>
        (ret.val <=> ret.args \in LegalTransitions)

\* a transition out of a terminal status has been refused
C10_Witness ==
    /\ prog = "state_utils"
    /\ ret.op = "is_valid_status_transition"
    /\ ret.args = <<"Completed", "Streaming">>
    /\ ret.val = FALSE

\* the authority may cancel by the record's flags
CancelAuthorized(s, authority) ==
    \/ (authority = s.sender /\ s.cancelable_by_sender)
    \/ (authority = s.recipient /\ s.cancelable_by_recipient)

\* C11: cancel succeeds only for the sender with cancelable_by_sender or the
\* recipient with cancelable_by_recipient, and fails on a stream that is
\* already cancelled or completed.
C11_CancelAuthorization ==
    /\ (prog = "lib" /\ stream.created) =>
         \A authority \in Pubkeys, wraps \in BOOLEAN :
            LET out == lib_cancel_stream(stream, escrow, clock, authority, wraps)
            IN  /\ out.err = "Ok" => CancelAuthorized(stream, authority)
                /\ Terminal(stream) => out.err # "Ok"
    /\ prog = "ix_cancel" =>
         \A authority \in Pubkeys :
            LET out == ix_cancel_stream(stream, escrow, clock, authority)
            IN  /\ out.err = "Ok" => authority = stream.sender
                /\ Terminal(stream) => out.err # "Ok"
    /\ (prog = "state_stream" /\ ret.op = "can_cancel" /\ ret.val) =>
         /\ CancelAuthorized(stream, ret.args[1])
         /\ stream.status \notin {"Cancelled", "Completed"}

\* C12: a cancel by an authorised authority succeeds from every status that
\* is not terminal, a paused stream included.
C12_CancelFromNonTerminal ==
    /\ (prog = "lib" /\ stream.created /\ ~Terminal(stream)) =>
         \A authority \in Pubkeys :
            CancelAuthorized(stream, authority) =>
              \E wraps \in BOOLEAN :
                 lib_cancel_stream(stream, escrow, clock, authority, wraps).err = "Ok"
    /\ (prog = "state_stream" /\ ret.op = "can_cancel") =>
         ((CancelAuthorized(stream, ret.args[1])
           /\ stream.status \in {"Scheduled", "Streaming", "Paused"}) => ret.val)

\* what a Linear stream has streamed at time t: nothing before the start,
\* the deposit from the end on, the floor of the pro-rata share in between
LinearStreamed(deposited, start, end, t) ==
    IF t < start THEN 0
    ELSE IF t >= end THEN deposited
    ELSE (deposited * (t - start)) \div (end - start)

\* x - y floored at 0
FlooredAt0(x, y) == IF x >= y THEN x - y ELSE 0

\* C13: withdrawable_amount is 0 when the status is not Streaming, and is
\* the streamed amount less withdrawn_amount, floored at 0, when it is; for
\* a Linear stream the streamed amount is 0 before the start, the floor of
\* deposited * (now - start) / (end - start) in between and the deposit
\* from the end on.
C13_Withdrawable ==
    /\ (prog = "state_stream" /\ ret.op = "withdrawable_amount") =>
         LET streamed == calculate_streamed_amount(stream, ret.args[1])
         IN  /\ stream.status # "Streaming" => (ret.err = "Ok" /\ ret.val = 0)
             /\ (stream.status = "Streaming" /\ streamed.ok) =>
                  (ret.err = "Ok"
                   /\ ret.val = FlooredAt0(streamed.val, stream.withdrawn_amount))
             /\ (stream.status = "Streaming" /\ stream.stream_type = "Linear") =>
                  (ret.err = "Ok"
                   /\ ret.val = FlooredAt0(LinearStreamed(stream.deposited_amount,
                                                          stream.start_time,
                                                          stream.end_time, ret.args[1]),
                                           stream.withdrawn_amount))
    /\ prog = "ix_withdraw" =>
         \A t \in Times :
            LET w == ix_calculate_withdrawable_amount(stream, t)
            IN  /\ ~stream.is_active => (w.ok /\ w.val = 0)
                /\ (stream.stream_type = "Linear" /\ is_some(stream.end_time)) =>
                     (w.ok
                      /\ w.val = FlooredAt0(LinearStreamed(stream.deposited_amount,
                                                           stream.start_time,
                                                           unwrap(stream.end_time), t),
                                            stream.withdrawn_amount))

\* a paused stream that has streamed more than was withdrawn reports nothing
\* withdrawable
C13_Witness ==
    /\ prog = "state_stream"
    /\ ret.op = "withdrawable_amount" /\ ret.err = "Ok" /\ ret.val = 0
    /\ stream.status = "Paused"
    /\ stream.stream_type = "Linear"
    /\ stream.withdrawn_amount > 0
    /\ LinearStreamed(stream.deposited_amount, stream.start_time, stream.end_time,
                      ret.args[1]) > stream.withdrawn_amount

\* C14: a withdraw at a time when nothing is withdrawable fails with the
\* no-funds error, whatever amount is asked for (no amount and the amount 0
\* included), and so leaves withdrawn_amount and the time of the last
\* withdrawal as they were.
C14_NothingWithdrawableFails ==
    /\ (prog = "lib" /\ stream.created) =>
         \A authority \in Pubkeys, amount \in AmountArgs, wraps \in BOOLEAN :
            LET w == lib_calculate_withdrawable_amount(stream, clock)
                out == lib_withdraw(stream, escrow, clock, authority, amount, wraps)
            IN  (w.ok /\ w.val = 0) =>
                  /\ out.err # "Ok"
                  /\ (authority = stream.recipient /\ ~stream.paused
                      /\ ~is_some(stream.canceled_at)) => out.err = "InsufficientFunds"
    /\ prog = "ix_withdraw" =>
         \A authority \in Pubkeys, amount \in AmountOptions :
            LET w == ix_calculate_withdrawable_amount(stream, clock)
                out == ix_withdraw_handler(stream, escrow, clock, authority, amount)
            IN  (w.ok /\ w.val = 0) =>
                  /\ out.err # "Ok"
                  /\ (authority = stream.recipient /\ stream.is_active) =>
                       out.err = "NoTokensToWithdraw"

\* C15: when something is withdrawable, a withdraw of a requested amount x
\* fails with the insufficient-withdrawable error if x exceeds it and
\* otherwise adds exactly x to withdrawn_amount; a withdraw with no requested
\* amount adds exactly the whole withdrawable amount.
C15_WithdrawAmount ==
    /\ (prog = "lib" /\ stream.created /\ ~stream.paused
        /\ ~is_some(stream.canceled_at)) =>
         \A amount \in U64, wraps \in BOOLEAN :
            LET w == lib_calculate_withdrawable_amount(stream, clock)
                out == lib_withdraw(stream, escrow, clock, stream.recipient, amount, wraps)
            IN  (w.ok /\ w.val > 0) =>
                  IF amount > w.val
                  THEN out.err = "InsufficientFunds"
                  ELSE /\ out.err = "Ok"
                       /\ out.x = amount
                       /\ out.mem.withdrawn_amount = stream.withdrawn_amount + amount
    /\ (prog = "ix_withdraw" /\ stream.is_active) =>
         \A amount \in {None} \cup {Some(a) : a \in U64} :
            LET w == ix_calculate_withdrawable_amount(stream, clock)
                out == ix_withdraw_handler(stream, escrow, clock, stream.recipient, amount)
                x == IF is_some(amount) THEN unwrap(amount) ELSE w.val
            IN  (w.ok /\ w.val > 0) =>
                  IF x > w.val
                  THEN out.err = "InsufficientWithdrawableBalance"
                  ELSE /\ out.err = "Ok"
                       /\ out.x = x
                       /\ out.mem.withdrawn_amount = stream.withdrawn_amount + x

\* after a withdraw that paid something, more is withdrawable, and less than
\* the largest amount a caller can ask for
C15_Witness ==
    /\ prog = "lib"
    /\ ret.op = "withdraw" /\ ret.err = "Ok" /\ ret.val[1] > 0
    /\ ~stream.paused /\ ~is_some(stream.canceled_at)
    /\ LET w == lib_calculate_withdrawable_amount(stream, clock)
       IN  /\ w.ok /\ w.val > 0
           /\ \E amount \in U64 : amount > w.val

\* C16: a successful withdraw that brings withdrawn_amount to the deposit
\* moves the record out of the streaming status in the same operation (the
\* fields that hold its status change, and the record is inactive); one that
\* leaves withdrawn_amount below the deposit leaves the status as it was.
C16_CompletesOnFullWithdrawal ==
    /\ (prog = "lib" /\ stream.created) =>
         \A amount \in U64, wraps \in BOOLEAN :
            LET out == lib_withdraw(stream, escrow, clock, stream.recipient, amount, wraps)
            IN  out.err = "Ok" =>
                  IF FullyWithdrawn(out.mem)
                  THEN StatusFields(out.mem) # StatusFields(stream)
                  ELSE StatusFields(out.mem) = StatusFields(stream)
    /\ prog = "ix_withdraw" =>
         \A amount \in {None} \cup {Some(a) : a \in U64} :
            LET out == ix_withdraw_handler(stream, escrow, clock, stream.recipient, amount)
            IN  out.err = "Ok" =>
                  IF FullyWithdrawn(out.mem)
                  THEN stream.is_active /\ ~out.mem.is_active
                  ELSE out.mem.is_active

\* C17: a topup of 0 fails with the invalid-amount error, a topup of a
\* cancelled or completed stream fails, and every topup that succeeds adds
\* exactly the amount to the deposit, the sum never leaving the u64 range.
C17_Topup ==
    (prog = "lib" /\ stream.created) =>
      \A amount \in U64, sender_balance \in SenderBalances(escrow), wraps \in BOOLEAN :
         LET out == lib_topup_stream(stream, escrow, stream.sender, amount,
                                     sender_balance, wraps)
         IN  /\ amount = 0 => out.err = "InvalidAmount"
             /\ Terminal(stream) => out.err # "Ok"
             /\ out.err = "Ok" =>
                  out.mem.deposit_amount = stream.deposit_amount + amount

\* the authority may transfer by the record's flags
TransferAuthorized(s, authority) ==
    \/ (authority = s.sender /\ s.transferable_by_sender)
    \/ (authority = s.recipient /\ s.transferable_by_recipient)

\* C18: a transfer succeeds only for the sender with transferable_by_sender
\* or the current recipient with transferable_by_recipient, on a stream that
\* is not cancelled; it then sets recipient to new_recipient and changes
\* nothing else; a transfer that fails leaves the recipient as it was.
C18_Transfer ==
    (prog = "lib" /\ stream.created) =>
      \A authority \in Pubkeys, new_recipient \in Pubkeys :
         LET out == lib_transfer_stream(stream, escrow, authority, new_recipient)
         IN  IF out.err = "Ok"
             THEN /\ TransferAuthorized(stream, authority)
                  /\ ~is_some(stream.canceled_at)
                  /\ out.mem = [stream EXCEPT !.recipient = new_recipient]
                  /\ out.escrow = escrow
             ELSE out.mem.recipient = stream.recipient

\* a stream that was transferred to a new recipient and cancelled afterwards
C18_Witness ==
    /\ prog = "lib"
    /\ stream.created
    /\ stream.recipient \in NewRecipients
    /\ is_some(stream.canceled_at)
    /\ \E authority \in Pubkeys : TransferAuthorized(stream, authority)

\* C19: a pause succeeds only for the sender, on a stream that is neither
\* paused nor cancelled nor completed; the sender's pause of a paused stream
\* fails with the already-paused error, a pause of a cancelled or completed
\* stream fails, and a pause that fails leaves the record as it was.
C19_Pause ==
    (prog = "lib" /\ stream.created) =>
      \A authority \in Pubkeys :
         LET out == lib_pause_stream(stream, escrow, authority)
         IN  /\ out.err = "Ok" =>
                  (authority = stream.sender /\ ~stream.paused /\ ~Terminal(stream))
             /\ (authority = stream.sender /\ stream.paused) =>
                  out.err = "StreamAlreadyPaused"
             /\ out.err # "Ok" => out.mem = stream

\* C20: a resume succeeds only for the sender, on a paused stream that is
\* not cancelled, and clears the paused flag and nothing else; the sender's
\* resume of a stream that is not paused fails with the not-paused error, a
\* resume of a cancelled stream fails, and a resume that fails leaves the
\* record as it was.
C20_Resume ==
    (prog = "lib" /\ stream.created) =>
      \A authority \in Pubkeys :
         LET out == lib_resume_stream(stream, escrow, authority)
         IN  /\ out.err = "Ok" =>
                  /\ authority = stream.sender
                  /\ stream.paused
                  /\ ~is_some(stream.canceled_at)
                  /\ out.mem = [stream EXCEPT !.paused = FALSE]
                  /\ out.escrow = escrow
             /\ (authority = stream.sender /\ ~stream.paused) =>
                  out.err = "StreamNotPaused"
             /\ is_some(stream.canceled_at) => out.err # "Ok"
             /\ out.err # "Ok" => out.mem = stream

\* a stream that was paused and resumed is streaming again
C20_Witness ==
    /\ prog = "lib"
    /\ ret.op = "resume_stream" /\ ret.err = "Ok"
    /\ ~stream.paused /\ ~is_some(stream.canceled_at)
    /\ lib_resume_stream(stream, escrow, stream.sender).err = "StreamNotPaused"

\* C21: a cancel pays the recipient what is streamed and not yet withdrawn,
\* capped at the custody balance, and returns the rest of the custody
\* balance to the sender; a lack of custody caps the payout and does not
\* make the cancel fail.
C21_CancelAmounts ==
    /\ (prog = "lib" /\ stream.created /\ ~stream.paused
        /\ ~is_some(stream.canceled_at)) =>
         \A authority \in Pubkeys, wraps \in BOOLEAN :
            LET w == lib_calculate_withdrawable_amount(stream, clock)
                out == lib_cancel_stream(stream, escrow, clock, authority, wraps)
            IN  (CancelAuthorized(stream, authority) /\ w.ok) =>
                  /\ out.err = "Ok"
                  /\ out.x = min(w.val, escrow)
                  /\ out.y = escrow - out.x
    /\ (prog = "ix_cancel" /\ stream.status = "Active") =>
         LET due == ix_calculate_amounts(stream, escrow, clock)[1]
             out == ix_cancel_stream(stream, escrow, clock, stream.sender)
         IN  /\ out.err = "Ok"
             /\ out.x = min(due, escrow)
             /\ out.y = escrow - out.x

\* C22: a successful cancel at time now by an authority adds exactly the
\* recipient's payout to withdrawn_amount, marks the record cancelled, and
\* records now as the time and the authority as the author of the cancel;
\* no other field of the record changes.
C22_CancelFrame ==
    /\ (prog = "lib" /\ stream.created) =>
         \A authority \in Pubkeys, wraps \in BOOLEAN :
            LET out == lib_cancel_stream(stream, escrow, clock, authority, wraps)
            IN  out.err = "Ok" =>
                  out.mem = [stream EXCEPT
                               !.withdrawn_amount = stream.withdrawn_amount + out.x,
                               !.canceled_at = Some(clock),
                               !.canceled_by = Some(authority)]
    /\ prog = "ix_cancel" =>
         \A authority \in Pubkeys :
            LET out == ix_cancel_stream(stream, escrow, clock, authority)
            IN  out.err = "Ok" =>
                  /\ out.mem = [stream EXCEPT
                                  !.withdrawn_amount = stream.withdrawn_amount + out.x,
                                  !.status = "Cancelled",
                                  !.cancelled_at = Some(clock)]
                  /\ "cancelled_by" \in DOMAIN out.mem
                  /\ out.mem.cancelled_by = Some(authority)

\* C23: in every step on a created stream the deposit and withdrawn_amount
\* do not decrease; the deposit changes in a topup only and
\* withdrawn_amount in a withdraw or a cancel only.
C23_AmountsMonotonic ==
    [][Lifecycle =>
         /\ Deposited(stream') >= Deposited(stream)
         /\ stream'.withdrawn_amount >= stream.withdrawn_amount
         /\ Deposited(stream') # Deposited(stream) => ret'.op = "topup_stream"
         /\ stream'.withdrawn_amount # stream.withdrawn_amount =>
              ret'.op \in {"withdraw", "cancel_stream"}]_vars

\* the fields of a lib.rs record that are fixed at creation: the sender,
\* the mint, the vesting policy and the four permission flags
FixedFields(s) ==
    <<s.sender, s.mint, s.start_time, s.end_time, s.cliff_time,
      s.cancelable_by_sender, s.cancelable_by_recipient,
      s.transferable_by_sender, s.transferable_by_recipient>>

\* C24: after creation no operation changes sender, mint, the vesting
\* policy or the four permission flags, and recipient changes in a
\* successful transfer only.
C24_FixedAfterCreation ==
    [][(prog = "lib" /\ stream.created) =>
         /\ stream'.created
         /\ FixedFields(stream') = FixedFields(stream)
         /\ stream'.recipient # stream.recipient =>
              (ret'.op = "transfer_stream" /\ ret'.err = "Ok")]_vars

\* a stream that went through a transfer, a withdrawal and a cancel
C24_Witness ==
    /\ prog = "lib"
    /\ stream.created
    /\ stream.recipient \in NewRecipients
    /\ stream.withdrawn_amount > 0
    /\ is_some(stream.canceled_at)
    /\ stream.cancelable_by_sender

\* C25: create_stream rejects start_time >= end_time, a deposit of 0 and a
\* cliff_time outside [start_time, end_time]; the record it creates has
\* withdrawn_amount 0 and the deposit asked for; start_time < end_time and
\* start_time <= cliff_time <= end_time hold in every state of a created
\* stream.
C25_CreateAndTimeOrder ==
    /\ (prog = "lib" /\ ~stream.created) =>
         \A deposit_amount \in U64, start_time \in Times, end_time \in Times,
            cliff_time \in {None} \cup {Some(t) : t \in Times}, flags \in Flags,
            sender_balance \in SenderBalances(0) :
            LET out == lib_create_stream(Sender, "bob", deposit_amount, start_time,
                                         end_time, cliff_time, flags, sender_balance)
            IN  /\ start_time >= end_time => out.err = "InvalidTimeRange"
                /\ (start_time < end_time /\ deposit_amount = 0) =>
                     out.err = "InvalidAmount"
                /\ (is_some(cliff_time)
                    /\ (unwrap(cliff_time) < start_time \/ unwrap(cliff_time) > end_time)) =>
                     out.err # "Ok"
                /\ out.err = "Ok" =>
                     /\ out.mem.withdrawn_amount = 0
                     /\ out.mem.deposit_amount = deposit_amount
    /\ (prog = "lib" /\ stream.created) =>
         /\ stream.start_time < stream.end_time
         /\ is_some(stream.cliff_time) =>
              /\ stream.start_time <= unwrap(stream.cliff_time)
              /\ unwrap(stream.cliff_time) <= stream.end_time
    /\ (prog = "ix_withdraw" /\ is_some(stream.end_time)) =>
         stream.start_time < unwrap(stream.end_time)

\* C26: the Linear streamed amount is 0 before start_time, the deposit from
\* end_time on and the floor of deposit * (now - start_time) /
\* (end_time - start_time) in between, for every deposit of the u64 range:
\* the call returns that value, never an error and never a wrapped product.
C26_LinearStreamed ==
    /\ (prog = "state_stream" /\ ret.op = "calculate_streamed_amount"
        /\ stream.stream_type = "Linear") =>
         /\ ret.err = "Ok"
         /\ ret.val = LinearStreamed(stream.deposited_amount, stream.start_time,
                                     stream.end_time, ret.args[1])
    /\ (prog = "state_utils" /\ ret.op = "utils_calculate_streamed_amount") =>
         /\ ret.err = "Ok"
         /\ ret.val = LinearStreamed(stream.total_amount, stream.start_time,
                                     stream.end_time, ret.args[1])

\* what a Cliff stream has streamed at time t: nothing before the cliff;
\* from the cliff on, the cliff amount and the pro-rata share of the rest
\* of the deposit from start to end
CliffStreamed(deposited, cliff_amount, start, end, cliff_time, t) ==
    IF t < cliff_time THEN 0
    ELSE cliff_amount
         + (IF t < start THEN 0
            ELSE ((deposited - cliff_amount) * (min(t, end) - start)) \div (end - start))

\* C27: the Cliff streamed amount is 0 before cliff_time; from cliff_time on
\* it is cliff_amount plus the floor of (deposit - cliff_amount) *
\* (min(now, end_time) - start_time) / (end_time - start_time), whatever
\* part of the deposit the cliff amount is.
C27_CliffStreamed ==
    /\ (prog = "state_stream" /\ ret.op = "calculate_streamed_amount"
        /\ stream.stream_type = "Cliff") =>
         /\ ret.err = "Ok"
         /\ ret.val = CliffStreamed(stream.deposited_amount, stream.cliff_amount,
                                    stream.start_time, stream.end_time,
                                    stream.cliff_time, ret.args[1])
    /\ (prog = "state_utils" /\ ret.op = "utils_calculate_vested_amount"
        /\ stream.vesting_type = "Cliff" /\ is_some(stream.cliff_time)) =>
         /\ ret.err = "Ok"
         /\ \A cliff_amount \in 0..stream.total_amount :
               ret.val = CliffStreamed(stream.total_amount, cliff_amount,
                                       stream.start_time, stream.end_time,
                                       unwrap(stream.cliff_time), ret.args[1])

\* C28: for a stream with a cliff and no lump-sum release, the withdrawable
\* amount is 0 at every time before the cliff point and, from the cliff
\* point on, the Linear amount over the whole deposit from start to end less
\* withdrawn_amount.
C28_CliffWithdrawable ==
    /\ (prog = "lib" /\ stream.created /\ is_some(stream.cliff_time)) =>
         \A t \in Times :
            LET w == lib_calculate_withdrawable_amount(stream, t)
            IN  /\ w.ok
                /\ w.val = IF t < unwrap(stream.cliff_time) THEN 0
                           ELSE FlooredAt0(LinearStreamed(stream.deposit_amount,
                                                          stream.start_time,
                                                          stream.end_time, t),
                                           stream.withdrawn_amount)
    /\ (prog = "ix_withdraw" /\ stream.stream_type = "Cliff"
        /\ is_some(stream.end_time)) =>
         \A t \in Times :
            LET w == ix_calculate_withdrawable_amount(stream, t)
            IN  /\ w.ok
                /\ w.val = IF t < stream.start_time + unwrap_or(stream.cliff_amount, 0)
                           THEN 0
                           ELSE FlooredAt0(LinearStreamed(stream.deposited_amount,
                                                          stream.start_time,
                                                          unwrap(stream.end_time), t),
                                           stream.withdrawn_amount)

\* a stream with the clock before its cliff, when a Linear stream would
\* have something withdrawable
C28_Witness ==
    /\ prog = "lib"
    /\ stream.created
    /\ is_some(stream.cliff_time)
    /\ clock < unwrap(stream.cliff_time)
    /\ LinearStreamed(stream.deposit_amount, stream.start_time, stream.end_time,
                      clock) > stream.withdrawn_amount
    /\ lib_calculate_withdrawable_amount(stream, clock).val = 0

\* what a Step stream has streamed at time t: rate_amount for every whole
\* interval since the start, capped at the deposit
StepStreamed(deposited, start, rate, interval, t) ==
    IF t < start THEN 0 ELSE min(deposited, rate * ((t - start) \div interval))

\* C29: the Step streamed amount is 0 before start_time and otherwise the
\* smaller of the deposit and rate_amount * floor((now - start_time) /
\* rate_interval), for every rate_amount of the u64 range; the call returns
\* that value or an error, and never panics or returns a wrapped value.
C29_StepStreamed ==
    (prog = "state_stream" /\ ret.op = "calculate_streamed_amount"
     /\ stream.stream_type = "Step") =>
      /\ ret.err # "panic"
      /\ ret.err = "Ok" =>
           ret.val = StepStreamed(stream.deposited_amount, stream.start_time,
                                  stream.rate_amount, stream.rate_interval_in_seconds,
                                  ret.args[1])

\* C30: on every record and at every time the Custom policy streams what
\* the Linear policy streams on the same record.
C30_CustomIsLinear ==
    /\ (prog = "state_stream" /\ ret.op = "calculate_streamed_amount"
        /\ stream.stream_type = "Custom") =>
         LET linear == calculate_streamed_amount([stream EXCEPT !.stream_type = "Linear"],
                                                 ret.args[1])
         IN  ret.err = linear.err /\ ret.val = linear.val
    /\ OnVestingArgs =>
         \A t \in UtilsTimes, wraps \in BOOLEAN :
            utils_calculate_vested_amount(stream.total_amount, "Custom",
                                          stream.start_time, stream.cliff_time,
                                          stream.end_time, t, wraps)
            = utils_calculate_vested_amount(stream.total_amount, "Linear",
                                            stream.start_time, stream.cliff_time,
                                            stream.end_time, t, wraps)

\* a Custom stream part of the way through: some of the deposit is
\* streamed, not all of it
C30_Witness ==
    /\ prog = "state_stream"
    /\ ret.op = "calculate_streamed_amount" /\ ret.err = "Ok"
    /\ stream.stream_type = "Custom"
    /\ ret.val > 0
    /\ ret.val < stream.deposited_amount

\* C31: each fee is the floor of amount * bps / 10000, for every amount of
\* the u64 range and every rate from 0 to 10000: the call returns that
\* value, never an error and never a wrapped product.
C31_FeeExact ==
    /\ (prog = "state_stream" /\ ret.op = "calculate_fees"
        /\ stream.fee_percentage <= BPS_DENOMINATOR
        /\ stream.partner_fee_percentage <= BPS_DENOMINATOR) =>
         /\ ret.err = "Ok"
         /\ ret.val[1] = (ret.args[1] * stream.fee_percentage) \div BPS_DENOMINATOR
         /\ ret.val[2] = (ret.args[1] * stream.partner_fee_percentage) \div BPS_DENOMINATOR
    /\ (OnFeeArgs /\ ret.op = "calculate_platform_fee"
        /\ stream.fee_bps <= BPS_DENOMINATOR) =>
         /\ ret.err = "Ok"
         /\ ret.val = (stream.amount * stream.fee_bps) \div BPS_DENOMINATOR

\* the rank of a role in the order Owner > Admin > Member > Viewer
RoleRank(role) ==
    CASE role = "Owner" -> 3 [] role = "Admin" -> 2 [] role = "Member" -> 1
      [] role = "Viewer" -> 0

\* C32: has_treasury_permission(role, required) is true exactly when role
\* ranks at least as high as required in Owner > Admin > Member > Viewer.
C32_TreasuryPermission ==
    (prog = "state_utils" /\ ret.op = "has_treasury_permission") =>
       (ret.val = (RoleRank(ret.args[1]) >= RoleRank(ret.args[2])))

\* a Member is refused what takes an Admin
C32_Witness ==
    /\ prog = "state_utils"
    /\ ret.op = "has_treasury_permission"
    /\ ret.args = <<"Member", "Admin">>
    /\ ret.val = FALSE

\* what the record s of the running program has streamed at time t: nothing
\* before the start or before the cliff, the pro-rata share of the deposit
\* up to the end, the deposit from the end on (and from the start on where
\* the record has no end)
StreamedAt(s, t) ==
    IF prog = "lib"
    THEN IF is_some(s.cliff_time) /\ t < unwrap(s.cliff_time) THEN 0
         ELSE LinearStreamed(s.deposit_amount, s.start_time, s.end_time, t)
    ELSE IF t < s.start_time THEN 0
         ELSE IF ~is_some(s.end_time) \/ t >= unwrap(s.end_time) THEN s.deposited_amount
         ELSE IF s.stream_type = "Cliff"
                 /\ t < s.start_time + unwrap_or(s.cliff_amount, 0) THEN 0
         ELSE LinearStreamed(s.deposited_amount, s.start_time, unwrap(s.end_time), t)

\* C33: after every successful withdraw or cancel, withdrawn_amount is no
\* more than the amount streamed at the time of the call, whatever topups,
\* pauses and resumes came before.
C33_NeverPaidUnvested ==
    [][(/\ prog \in {"lib", "ix_withdraw"}
        /\ ret'.op \in {"withdraw", "cancel_stream"}
        /\ ret'.err = "Ok") =>
         stream'.withdrawn_amount <= StreamedAt(stream', clock)]_vars

\* the books of a lib.rs stream balance: the escrow token account holds
\* deposit_amount - withdrawn_amount until the stream is canceled, and
\* nothing afterwards
Conserved(s, esc) ==
    IF is_some(s.canceled_at) THEN esc = 0
    ELSE esc = s.deposit_amount - s.withdrawn_amount

\* C34: create, topup, withdraw and cancel keep the books balanced: after
\* each of them the escrow holds deposit_amount - withdrawn_amount, or
\* nothing once the stream is canceled, and a cancel leaves what was paid to
\* the recipient plus what it refunds to the sender equal to what was
\* deposited.
C34_ValueConserved ==
    [][(/\ prog = "lib"
        /\ ret'.err = "Ok"
        /\ \/ ret'.op = "create_stream"
           \/ /\ ret'.op \in {"topup_stream", "withdraw", "cancel_stream"}
              /\ Conserved(stream, escrow)) =>
         /\ Conserved(stream', escrow')
         /\ ret'.op = "cancel_stream" =>
              stream'.withdrawn_amount + ret'.val[2] = stream'.deposit_amount]_vars

\* C35: an operation on a stream succeeds only for its sender or its current
\* recipient: withdraw only for the current recipient, pause, resume and
\* topup only for the sender, cancel and transfer only for one of the two;
\* after a transfer the previous recipient is refused.
C35_OnlyParties ==
    (prog = "lib" /\ stream.created) =>
      \A authority \in Pubkeys :
         /\ \A amount \in U64, wraps \in BOOLEAN :
               /\ lib_withdraw(stream, escrow, clock, authority, amount, wraps).err = "Ok"
                    => authority = stream.recipient
               /\ \A sender_balance \in SenderBalances(escrow) :
                     lib_topup_stream(stream, escrow, authority, amount,
                                      sender_balance, wraps).err = "Ok"
                       => authority = stream.sender
         /\ lib_pause_stream(stream, escrow, authority).err = "Ok"
              => authority = stream.sender
         /\ lib_resume_stream(stream, escrow, authority).err = "Ok"
              => authority = stream.sender
         /\ \A wraps \in BOOLEAN :
               lib_cancel_stream(stream, escrow, clock, authority, wraps).err = "Ok"
                 => authority \in {stream.sender, stream.recipient}
         /\ \A new_recipient \in Pubkeys :
               lib_transfer_stream(stream, escrow, authority, new_recipient).err = "Ok"
                 => authority \in {stream.sender, stream.recipient}

\* after a transfer the previous recipient has tried to withdraw and was
\* refused an amount that the new recipient can withdraw
C35_Witness ==
    /\ prog = "lib"
    /\ stream.created
    /\ stream.recipient \in NewRecipients
    /\ ret.op = "withdraw" /\ ret.err = "UnauthorizedRecipient"
    /\ lib_withdraw(stream, escrow, clock, "bob", 1, FALSE).err = "UnauthorizedRecipient"
    /\ lib_withdraw(stream, escrow, clock, stream.recipient, 1, FALSE).err = "Ok"

\* C36: while a stream is paused every withdraw fails and no step changes
\* withdrawn_amount; a pause and a resume change the paused flag only, and
\* the withdrawable amount at every time does not depend on that flag, so
\* after a resume it is what it would be had the stream never been paused.
C36_PauseKeepsVesting ==
    /\ []((prog = "lib" /\ stream.created) =>
            /\ stream.paused =>
                 \A authority \in Pubkeys, amount \in U64, wraps \in BOOLEAN :
                    lib_withdraw(stream, escrow, clock, authority, amount, wraps).err
                      \notin {"Ok", "TokenTransferFailed"}
            /\ \A t \in Times :
                  lib_calculate_withdrawable_amount(stream, t)
                  = lib_calculate_withdrawable_amount([stream EXCEPT !.paused = FALSE], t))
    /\ [][(prog = "lib" /\ stream.created) =>
            /\ stream.paused => stream'.withdrawn_amount = stream.withdrawn_amount
            /\ (ret'.op \in {"pause_stream", "resume_stream"} /\ ret'.err = "Ok") =>
                 stream' = [stream EXCEPT !.paused = ~stream.paused]]_vars

\* a stream resumed after its end, nothing withdrawn: the whole deposit is
\* withdrawable, the time spent paused included
C36_Witness ==
    /\ prog = "lib"
    /\ ret.op = "resume_stream" /\ ret.err = "Ok"
    /\ ~stream.paused
    /\ clock >= stream.end_time
    /\ stream.withdrawn_amount = 0
    /\ lib_calculate_withdrawable_amount(stream, clock) = Ok(stream.deposit_amount)
    /\ lib_withdraw(stream, escrow, clock, stream.recipient, stream.deposit_amount, FALSE).err = "Ok"

\* C37: a successful withdraw changes withdrawn_amount, the time of the
\* last withdrawal and the completion status only: the deposit, start_time,
\* end_time, the cliff settings, the sender and the recipient are as they
\* were, also when the withdrawal empties the stream.
C37_WithdrawFrame ==
    /\ (prog = "lib" /\ stream.created) =>
         \A amount \in U64, wraps \in BOOLEAN :
            LET out == lib_withdraw(stream, escrow, clock, stream.recipient, amount, wraps)
            IN  out.err = "Ok" =>
                  out.mem = [stream EXCEPT !.withdrawn_amount = out.mem.withdrawn_amount,
                                           !.last_withdrawal_time = out.mem.last_withdrawal_time]
    /\ prog = "ix_withdraw" =>
         \A amount \in {None} \cup {Some(a) : a \in U64} :
            LET out == ix_withdraw_handler(stream, escrow, clock, stream.recipient, amount)
            IN  out.err = "Ok" =>
                  out.mem = [stream EXCEPT !.withdrawn_amount = out.mem.withdrawn_amount,
                                           !.last_withdrawn_at = out.mem.last_withdrawn_at,
                                           !.is_active = out.mem.is_active]

\* C38: nothing stays locked after end_time. A Linear, Cliff or Custom
\* record with cliff_amount <= deposited_amount and start_time < end_time
\* has streamed its whole deposit at every time from end_time on, and the
\* recipient of a stream that is streaming at or after end_time can
\* withdraw all that is left: the withdraw succeeds and brings
\* withdrawn_amount to the deposit.
C38_NoFundsLockedAfterEnd ==
    /\ (prog = "state_stream" /\ ret.op = "calculate_streamed_amount"
        /\ stream.stream_type \in {"Linear", "Cliff", "Custom"}
        /\ stream.cliff_amount <= stream.deposited_amount
        /\ stream.start_time < stream.end_time
        /\ ret.args[1] >= stream.end_time) =>
         (ret.err = "Ok" /\ ret.val = stream.deposited_amount)
    /\ (prog = "ix_withdraw" /\ stream.is_active
        /\ is_some(stream.end_time) /\ clock >= unwrap(stream.end_time)) =>
         LET out == ix_withdraw_handler(stream, escrow, clock, stream.recipient, None)
         IN  /\ out.err = "Ok"
             /\ out.mem.withdrawn_amount = out.mem.deposited_amount
             /\ ~out.mem.is_active
    /\ (prog = "lib" /\ stream.created /\ ~stream.paused
        /\ ~is_some(stream.canceled_at) /\ clock >= stream.end_time) =>
         \E amount \in U64 : \A wraps \in BOOLEAN :
            LET out == lib_withdraw(stream, escrow, clock, stream.recipient, amount, wraps)
            IN  /\ out.err = "Ok"
                /\ out.mem.withdrawn_amount = out.mem.deposit_amount

\* the record instructions/withdraw.rs keeps for the stream of the
\* state/stream.rs record s
AsIxStream(s) ==
    [created |-> TRUE, sender |-> s.sender, recipient |-> s.recipient, mint |-> "mint",
     deposited_amount |-> s.deposited_amount, withdrawn_amount |-> s.withdrawn_amount,
     start_time |-> s.start_time, end_time |-> Some(s.end_time),
     stream_type |-> "Linear", is_active |-> TRUE, cliff_amount |-> None,
     last_withdrawn_at |-> s.start_time]

\* the record lib.rs keeps for the stream of the state/stream.rs record s
AsLibStream(s) ==
    [created |-> TRUE, sender |-> s.sender, recipient |-> s.recipient, mint |-> "mint",
     deposit_amount |-> s.deposited_amount, withdrawn_amount |-> s.withdrawn_amount,
     start_time |-> s.start_time, end_time |-> s.end_time, cliff_time |-> None,
     cancelable_by_sender |-> s.cancelable_by_sender,
     cancelable_by_recipient |-> s.cancelable_by_recipient,
     transferable_by_sender |-> TRUE, transferable_by_recipient |-> FALSE,
     last_withdrawal_time |-> s.start_time,
     canceled_at |-> None, canceled_by |-> None, paused |-> FALSE]

\* C39: on an active Linear stream without a cliff, with start_time <
\* end_time and withdrawn_amount <= deposited_amount, the withdrawable
\* amounts of state/stream.rs, instructions/withdraw.rs and lib.rs are the
\* same value at every time.
C39_SameWithdrawable ==
    (prog = "state_stream" /\ ret.op = "withdrawable_amount"
     /\ stream.stream_type = "Linear" /\ stream.status = "Streaming"
     /\ stream.start_time < stream.end_time
     /\ stream.withdrawn_amount <= stream.deposited_amount) =>
       /\ ret.err = "Ok"
       /\ ix_calculate_withdrawable_amount(AsIxStream(stream), ret.args[1]) = Ok(ret.val)
       /\ lib_calculate_withdrawable_amount(AsLibStream(stream), ret.args[1]) = Ok(ret.val)

\* a stream part of the way through and partly withdrawn: more is streamed
\* than was withdrawn, less than the deposit
C39_Witness ==
    /\ prog = "state_stream"
    /\ ret.op = "withdrawable_amount" /\ ret.err = "Ok"
    /\ stream.stream_type = "Linear" /\ stream.status = "Streaming"
    /\ stream.start_time < ret.args[1] /\ ret.args[1] < stream.end_time
    /\ stream.withdrawn_amount > 0
    /\ ret.val > 0
    /\ ret.val + stream.withdrawn_amount < stream.deposited_amount
    /\ lib_calculate_withdrawable_amount(AsLibStream(stream), ret.args[1]) = Ok(ret.val)

====
